---- MODULE Spec2Model ----
(***************************************************************************)
(* Premium Animations (cargo-website/assets/js/animations.js).             *)
(*                                                                         *)
(* The script is modelled as the event-driven state machine the browser    *)
(* runs on its main thread: init()/initAll(), the scroll listeners built   *)
(* by rafCallback, the animation-frame queue, and the IntersectionObserver *)
(* callbacks of the reveal, float and counter effects.                     *)
(*                                                                         *)
(* Numbers.  Lengths are CSS pixels; applied offsets are kept in tenths of *)
(* a pixel so that the speed factors 0.1 and 0.5 stay integral.  A parsed  *)
(* number is a pair <<"num", n>> or <<"nan", 0>>.  Times are milliseconds. *)
(*                                                                         *)
(* Time.  The clock is kept relative: instead of performance.now() and the *)
(* startTime a counter captured, a pending updateCounter carries elapsed,  *)
(* the difference the code computes from them, and Tick adds to it.  The   *)
(* code reads elapsed only through min(elapsed / duration, 1) and          *)
(* elapsed < duration, so it is kept up to duration.                       *)
(*                                                                         *)
(* Markup.  The initial state draws the page from a few pages, each with   *)
(* the elements of one group of effects; the script is the same on all.    *)
(* The section-entrance, line-drawing and magnetic-button effects are      *)
(* counted as registrations only: their callbacks set the classes          *)
(* section-visible, animate-in and animate and the transform of buttons.   *)
(***************************************************************************)
EXTENDS Integers, Sequences, FiniteSets, TLC

(***************************************************************************)
(* Bounds of the model.                                                    *)
(***************************************************************************)
MaxInitCalls == 2
MaxBatch == 2
MaxScrollSteps == 2
ClockResolution == 4

(***************************************************************************)
(* Constants of the program.                                               *)
(***************************************************************************)
duration == 2000
FallbackSpeedTenths == 1
SlideRange == 30

(***************************************************************************)
(* The page the script runs on: viewport and markup.                       *)
(***************************************************************************)
innerHeight == 100

Chars(str) ==
  CASE str = "undefined" -> <<"u", "n", "d", "e", "f", "i", "n", "e", "d">>
    [] str = "0.5" -> <<"0", ".", "5">>
    [] str = "40" -> <<"4", "0">>
    [] str = "abc" -> <<"a", "b", "c">>
    [] str = "12px" -> <<"1", "2", "p", "x">>
    [] OTHER -> <<>>

Pages == {"scroll", "counters", "visibility"}

\* el.dataset.speed: p1 carries no data-speed attribute, p2 carries "0.5".
DataSpeed(el) == IF el = "p2" THEN Chars("0.5") ELSE Chars("undefined")

\* The data-counter values a page may carry.
CounterAttributes == {Chars("40"), Chars("abc"), Chars("12px")}

\* Layout box of an element in document coordinates (untransformed).
LayoutTop(el) == IF el = "p1" THEN 0 ELSE 200
LayoutHeight(el) == IF el = "p1" THEN 100 ELSE 200

\* el.closest('section'): b1 sits in a section, b2 in none.
HasSection(el) == el = "b1"
SectionTop(el) == 100
SectionHeight(el) == 200

\* The class attribute of the markup.
MarkupClasses(el) == IF el = "t1" THEN {"section-title"} ELSE {"scroll-fade-in"}

ScrollPositions == {k * innerHeight : k \in 0..MaxScrollSteps}

(***************************************************************************)
(* Numbers and their parsing.                                              *)
(***************************************************************************)
NaN == <<"nan", 0>>
Num(n) == <<"num", n>>
IsNaN(v) == v[1] = "nan"

DigitChars == {"0", "1", "2", "3", "4", "5", "6", "7", "8", "9"}
DigitVal(ch) ==
  CASE ch = "0" -> 0 [] ch = "1" -> 1 [] ch = "2" -> 2 [] ch = "3" -> 3
    [] ch = "4" -> 4 [] ch = "5" -> 5 [] ch = "6" -> 6 [] ch = "7" -> 7
    [] ch = "8" -> 8 [] OTHER -> 9

RECURSIVE LeadingDigits(_)
LeadingDigits(s) ==
  IF s = <<>> \/ Head(s) \notin DigitChars THEN <<>>
  ELSE <<Head(s)>> \o LeadingDigits(Tail(s))

RECURSIVE DigitsValue(_)
DigitsValue(d) ==
  IF d = <<>> THEN 0
  ELSE DigitsValue(SubSeq(d, 1, Len(d) - 1)) * 10 + DigitVal(d[Len(d)])

Signed(s) == s # <<>> /\ Head(s) \in {"-", "+"}
Unsigned(s) == IF Signed(s) THEN Tail(s) ELSE s
Negative(s) == s # <<>> /\ Head(s) = "-"

\* parseInt(s, 10): an optional sign and the longest prefix of digits.
parseInt(s) ==
  LET d == LeadingDigits(Unsigned(s))
      v == DigitsValue(d)
  IN IF d = <<>> THEN NaN ELSE Num(IF Negative(s) THEN -v ELSE v)

\* parseFloat(s) in tenths: sign, digits, and a fraction of which the first
\* digit is kept (the markup of the model has at most one).
parseFloat(s) ==
  LET body == Unsigned(s)
      ip == LeadingDigits(body)
      rest == SubSeq(body, Len(ip) + 1, Len(body))
      fp == IF rest # <<>> /\ Head(rest) = "." THEN LeadingDigits(Tail(rest)) ELSE <<>>
      v == DigitsValue(ip) * 10 + (IF fp = <<>> THEN 0 ELSE DigitVal(fp[1]))
  IN IF ip = <<>> /\ fp = <<>> THEN NaN ELSE Num(IF Negative(s) THEN -v ELSE v)

Abs(x) == IF x < 0 THEN -x ELSE x
Min(a, b) == IF a < b THEN a ELSE b

VARIABLES
  markup,              \* the page the script was loaded on
  readyState,          \* document.readyState
  domListener,         \* initAll is registered for DOMContentLoaded
  initCalls,           \* calls of init()
  initRuns,            \* runs of initAll()
  prefersReducedMotion,
  mobile,              \* isMobile()
  boxTransformable,    \* a translateY moves the box getBoundingClientRect returns
  counterAttr,         \* the data-counter attribute of each counter element
  scrollY,             \* window.pageYOffset
  handlers,            \* the scroll listeners, in order of registration
  rafQueue,            \* callbacks requested for the next animation frame
  transform,           \* el.style.transform: <<>> or <<offset in tenths>>
  classList,           \* el.classList of the reveal markup
  observers,           \* IntersectionObservers created, per effect
  buttonListeners,     \* mousemove/mouseleave pairs attached per button
  playState,           \* el.style.animationPlayState
  counterObserved,     \* per counterObserver, the targets it still observes
  textContent,         \* el.textContent of the counters
  started,             \* history: updateCounter chains requested per element
  decreased,           \* history: a write to textContent was below the previous
  lastEntry,           \* history: last float entry since initialisation
  reported,            \* history: reveal targets an entry was delivered for
  intersected          \* history: reveal targets of an intersecting entry

envVars == <<markup, prefersReducedMotion, mobile, boxTransformable, counterAttr>>
vars == <<readyState, domListener, initCalls, initRuns, envVars, scrollY,
          handlers, rafQueue, transform, classList, observers, buttonListeners,
          playState, counterObserved, textContent, started, decreased,
          lastEntry, reported, intersected>>

\* querySelectorAll for the selectors of the script, on the page loaded.
AllParallax == {"p1", "p2"}
AllBg == {"b1", "b2"}
AllFloat == {"f1"}
AllCounters == {"c1"}
RevealMarkup == {"t1", "r1"}
ParallaxElements == IF markup = "scroll" THEN AllParallax ELSE {}
BgElements == IF markup = "scroll" THEN AllBg ELSE {}
FloatElements == IF markup = "visibility" THEN AllFloat ELSE {}
CounterElements == IF markup = "counters" THEN AllCounters ELSE {}

\* The time between two readings of the clock.
TickMs == duration \div ClockResolution

Markup == <<"markup", 0>>

Init ==
  /\ markup \in Pages
  /\ readyState \in {"loading", "complete"}
  /\ domListener = FALSE
  /\ initCalls = 0
  /\ initRuns = 0
  /\ prefersReducedMotion \in BOOLEAN
  /\ mobile \in BOOLEAN
  /\ boxTransformable \in (IF markup = "scroll" THEN BOOLEAN ELSE {FALSE})
  /\ counterAttr \in [CounterElements -> CounterAttributes]
  /\ scrollY = 0
  /\ handlers = <<>>
  /\ rafQueue = <<>>
  /\ transform = [el \in AllParallax \cup AllBg |-> <<>>]
  /\ classList = [el \in RevealMarkup |-> MarkupClasses(el)]
  /\ observers = [reveal |-> 0, float |-> 0, section |-> 0, line |-> 0]
  /\ buttonListeners = 0
  /\ playState = [el \in AllFloat |-> ""]
  /\ counterObserved = <<>>
  /\ textContent = [el \in AllCounters |-> Markup]
  /\ started = [el \in AllCounters |-> 0]
  /\ decreased = [el \in AllCounters |-> FALSE]
  /\ lastEntry = [el \in AllFloat |-> <<>>]
  /\ reported = {}
  /\ intersected = {}

(***************************************************************************)
(* The mutable part of the page a callback works on.  Callbacks are        *)
(* operators from one such record to the next, so that a frame, a scroll   *)
(* event or an observer batch can run several of them in sequence.         *)
(***************************************************************************)
Page ==
  [handlers |-> handlers, rafQueue |-> rafQueue, transform |-> transform,
   classList |-> classList, playState |-> playState,
   counterObserved |-> counterObserved, textContent |-> textContent,
   started |-> started, decreased |-> decreased]

ThrottledFrame(h) ==
  [kind |-> "rafCallback", h |-> h, target |-> "", elapsed |-> 0, finalValue |-> NaN]
CounterFrame(el, v) ==
  [kind |-> "updateCounter", h |-> 0, target |-> el, elapsed |-> 0, finalValue |-> v]

requestAnimationFrame(pg, cb) == [pg EXCEPT !.rafQueue = Append(@, cb)]

\* rafCallback, lines 30-37: the wrapper a scroll event calls.  Mutant first.
rafCallbackUnguarded(pg, h) ==
  [requestAnimationFrame(pg, ThrottledFrame(h)) EXCEPT !.handlers[h].ticking = TRUE]

rafCallback(pg, h) ==
  IF ~pg.handlers[h].ticking
  THEN [requestAnimationFrame(pg, ThrottledFrame(h)) EXCEPT !.handlers[h].ticking = TRUE]
  ELSE pg

\* getBoundingClientRect().top of a parallax element, in tenths of a pixel:
\* the layout box relative to the viewport, moved by the translateY in force
\* when the box is one CSS transforms apply to.
RectTop10(pg, el) ==
  10 * (LayoutTop(el) - scrollY)
    + (IF boxTransformable /\ pg.transform[el] # <<>> THEN pg.transform[el][1] ELSE 0)

\* el.dataset.speed parsed, with the || 0.1 fallback (NaN and 0 are falsy).
Speed(el) ==
  LET v == parseFloat(DataSpeed(el))
  IN IF IsNaN(v) \/ v[2] = 0 THEN FallbackSpeedTenths ELSE v[2]

\* lines 56-60, in tenths of a pixel.
Distance10(pg, el) ==
  LET elementTop == RectTop10(pg, el) + 10 * scrollY
      elementCenter == elementTop + (10 * LayoutHeight(el)) \div 2
      viewportCenter == 10 * scrollY + (10 * innerHeight) \div 2
  IN viewportCenter - elementCenter

\* line 63: Math.abs(distance) < window.innerHeight * 1.5
CloseToViewport(d10) == 2 * Abs(d10) < 3 * 10 * innerHeight

ParallaxOffset(pg, el) ==
  IF CloseToViewport(Distance10(pg, el))
  THEN <<(Distance10(pg, el) * Speed(el)) \div 10>>
  ELSE pg.transform[el]

\* lines 51-68: the callback handed to rafCallback by initParallax.
handleParallax(pg) ==
  [pg EXCEPT !.transform =
     [el \in DOMAIN @ |-> IF el \in ParallaxElements THEN ParallaxOffset(pg, el) ELSE @[el]]]

\* lines 189-201: offset of a background element, in tenths of a pixel.
SlideOffset(pg, el) ==
  LET top == SectionTop(el) - scrollY
      bottom == top + SectionHeight(el)
      isVisible == top < innerHeight /\ bottom > 0
  IN IF HasSection(el) /\ isVisible
     THEN <<(10 * SlideRange * (innerHeight - top)) \div (innerHeight + SectionHeight(el))
              - (10 * SlideRange) \div 2>>
     ELSE pg.transform[el]

\* lines 187-203: the callback handed to rafCallback by initBackgroundSlide.
handleSlide(pg) ==
  [pg EXCEPT !.transform =
     [el \in DOMAIN @ |-> IF el \in BgElements THEN SlideOffset(pg, el) ELSE @[el]]]

\* lines 32-35: the frame callback of a wrapper runs the handler, then
\* clears ticking.
RunThrottled(pg, h) ==
  LET ran == IF pg.handlers[h].kind = "handleParallax" THEN handleParallax(pg)
             ELSE handleSlide(pg)
  IN [ran EXCEPT !.handlers[h].ticking = FALSE]

(***************************************************************************)
(* The counter, lines 223-236.                                             *)
(***************************************************************************)
Pow4(x) == x * x * x * x

\* Math.floor(easeOutQuart * finalValue) with progress = elapsed / duration.
\* Every time of the model is a multiple of TickMs, so progress is the exact
\* fraction k/q and the product is computed without rounding.
CurrentValue(elapsed, finalValue) ==
  LET q == duration \div TickMs
      k == Min(elapsed, duration) \div TickMs
  IN IF IsNaN(finalValue) THEN NaN
     ELSE Num(((Pow4(q) - Pow4(q - k)) * finalValue[2]) \div Pow4(q))

\* progress < 1, line 231.  Mutant first.
InProgressForever(elapsed) == TRUE

InProgress(elapsed) == elapsed < duration

\* target.textContent = v.toLocaleString(): the text shows the number v in
\* the locale's digits and separators, and "NaN" for NaN.  The history
\* variable decreased records a numeric write below the number shown before.
WriteText(pg, el, v) ==
  LET before == pg.textContent[el]
      below == before[1] = "num" /\ v[1] = "num" /\ v[2] < before[2]
  IN [pg EXCEPT !.textContent[el] = v, !.decreased[el] = @ \/ below]

updateCounter(pg, cb) ==
  LET elapsed == cb.elapsed
      shown == WriteText(pg, cb.target, CurrentValue(elapsed, cb.finalValue))
  IN IF InProgress(elapsed)
     THEN requestAnimationFrame(shown, cb)
     ELSE WriteText(shown, cb.target, cb.finalValue)

(***************************************************************************)
(* One animation frame: the callbacks requested so far run in order with   *)
(* the frame's timestamp; what they request runs in the next frame.        *)
(***************************************************************************)
RunCallback(pg, cb) ==
  IF cb.kind = "rafCallback" THEN RunThrottled(pg, cb.h) ELSE updateCounter(pg, cb)

RECURSIVE RunCallbacks(_, _)
RunCallbacks(pg, cbs) ==
  IF cbs = <<>> THEN pg ELSE RunCallbacks(RunCallback(pg, Head(cbs)), Tail(cbs))

\* The page after an action, written back to the variables.
Becomes(pg) ==
  /\ handlers' = pg.handlers
  /\ rafQueue' = pg.rafQueue
  /\ transform' = pg.transform
  /\ classList' = pg.classList
  /\ playState' = pg.playState
  /\ counterObserved' = pg.counterObserved
  /\ textContent' = pg.textContent
  /\ started' = pg.started
  /\ decreased' = pg.decreased

AnimationFrame ==
  /\ rafQueue # <<>>
  /\ Becomes(RunCallbacks([Page EXCEPT !.rafQueue = <<>>], rafQueue))
  /\ UNCHANGED <<readyState, domListener, initCalls, initRuns, envVars, scrollY,
                 observers, buttonListeners, lastEntry, reported, intersected>>

\* Time passes: the next reading of the clock is TickMs later.
Tick ==
  /\ rafQueue' = [i \in DOMAIN rafQueue |->
                    IF rafQueue[i].kind = "updateCounter"
                    THEN [rafQueue[i] EXCEPT !.elapsed = Min(@ + TickMs, duration)]
                    ELSE rafQueue[i]]
  /\ UNCHANGED <<readyState, domListener, initCalls, initRuns, envVars, scrollY,
                 handlers, transform, classList, observers, buttonListeners,
                 playState, counterObserved, textContent, started, decreased,
                 lastEntry, reported, intersected>>

\* A scroll event: the position changes and every scroll listener is called.
RECURSIVE CallListeners(_, _)
CallListeners(pg, h) ==
  IF h > Len(pg.handlers) THEN pg ELSE CallListeners(rafCallback(pg, h), h + 1)

Scroll(y) ==
  /\ y # scrollY
  /\ scrollY' = y
  /\ Becomes(CallListeners(Page, 1))
  /\ UNCHANGED <<readyState, domListener, initCalls, initRuns, envVars,
                 observers, buttonListeners, lastEntry, reported, intersected>>

(***************************************************************************)
(* IntersectionObserver callbacks.  A batch is the list of entries one     *)
(* callback invocation receives, oldest first; the same target may occur   *)
(* more than once in it.                                                   *)
(***************************************************************************)
Entries(targets) == [target : targets, isIntersecting : BOOLEAN]
Batches(targets) == UNION {[1..n -> Entries(targets)] : n \in 1..MaxBatch}

\* lines 86-90.  Mutant first: the branches swapped.
FloatEntrySwapped(pg, entry) ==
  [pg EXCEPT !.playState[entry.target] =
     IF entry.isIntersecting THEN "paused" ELSE "running"]

FloatEntry(pg, entry) ==
  [pg EXCEPT !.playState[entry.target] =
     IF entry.isIntersecting THEN "running" ELSE "paused"]

\* lines 119-121.  Mutant first: the class is added whatever the entry says.
RevealEntryAlways(pg, entry) ==
  [pg EXCEPT !.classList[entry.target] = @ \cup {"is-visible", "active"}]

RevealEntry(pg, entry) ==
  IF entry.isIntersecting
  THEN [pg EXCEPT !.classList[entry.target] = @ \cup {"is-visible", "active"}]
  ELSE pg

\* lines 217-240, for the observer o.
CounterEntry(pg, entry, o) ==
  IF entry.isIntersecting
  THEN LET finalValue == parseInt(counterAttr[entry.target])
           requested == requestAnimationFrame(pg, CounterFrame(entry.target, finalValue))
       IN [requested EXCEPT !.counterObserved[o] = @ \ {entry.target},
                            !.started[entry.target] = @ + 1]
  ELSE pg

RECURSIVE FloatBatch(_, _)
FloatBatch(pg, entries) ==
  IF entries = <<>> THEN pg ELSE FloatBatch(FloatEntry(pg, Head(entries)), Tail(entries))

RECURSIVE RevealBatch(_, _)
RevealBatch(pg, entries) ==
  IF entries = <<>> THEN pg ELSE RevealBatch(RevealEntry(pg, Head(entries)), Tail(entries))

RECURSIVE CounterBatch(_, _, _)
CounterBatch(pg, entries, o) ==
  IF entries = <<>> THEN pg
  ELSE CounterBatch(CounterEntry(pg, Head(entries), o), Tail(entries), o)

\* The entries of a batch for one target, and the last of them.
Of(entries, el) == {i \in DOMAIN entries : entries[i].target = el}
Last(entries, el) ==
  entries[CHOOSE i \in Of(entries, el) : \A j \in Of(entries, el) : j <= i]

FloatCallback(entries) ==
  /\ observers.float > 0
  /\ Becomes(FloatBatch(Page, entries))
  /\ lastEntry' = [el \in AllFloat |->
                     IF Of(entries, el) = {} THEN lastEntry[el]
                     ELSE <<Last(entries, el).isIntersecting>>]
  /\ UNCHANGED <<readyState, domListener, initCalls, initRuns, envVars, scrollY,
                 observers, buttonListeners, reported, intersected>>

\* The elements the selector of initScrollReveal matches, lines 110-113.
RevealSelector ==
  {"scroll-fade-in", "scroll-slide-left", "scroll-slide-right", "scroll-scale-in",
   "reveal", "reveal-left", "reveal-right", "reveal-scale"}
RevealElements(classes) ==
  IF markup = "visibility"
  THEN {el \in RevealMarkup : classes[el] \cap RevealSelector # {}}
  ELSE {}

RevealCallback(entries) ==
  /\ observers.reveal > 0
  /\ Becomes(RevealBatch(Page, entries))
  /\ reported' = reported \cup {entries[i].target : i \in DOMAIN entries}
  /\ intersected' = intersected \cup
       {entries[i].target : i \in {j \in DOMAIN entries : entries[j].isIntersecting}}
  /\ UNCHANGED <<readyState, domListener, initCalls, initRuns, envVars, scrollY,
                 observers, buttonListeners, lastEntry>>

CounterCallback(o, entries) ==
  /\ Becomes(CounterBatch(Page, entries, o))
  /\ UNCHANGED <<readyState, domListener, initCalls, initRuns, envVars, scrollY,
                 observers, buttonListeners, lastEntry, reported, intersected>>

(***************************************************************************)
(* Initialisation, lines 319-345.                                          *)
(***************************************************************************)
\* lines 134-175, for the classes the markup of the model uses.
autoAddScrollClasses(classes) ==
  [el \in DOMAIN classes |->
     IF classes[el] \cap {"section-title", "section-subtitle"} # {}
        /\ classes[el] \cap {"reveal", "scroll-fade-in"} = {}
     THEN classes[el] \cup {"reveal"}
     ELSE IF classes[el] \cap {"feature-card", "service-card-new", "how-card"} # {}
             /\ "reveal" \notin classes[el]
     THEN classes[el] \cup {"reveal"}
     ELSE IF "quote-card" \in classes[el] THEN classes[el] \cup {"reveal-left"}
     ELSE IF "quote-graphic" \in classes[el] THEN classes[el] \cup {"reveal-right"}
     ELSE classes[el]]

\* lines 45-72: a new wrapper is made, registered for scroll and called once.
initParallax(pg) ==
  IF prefersReducedMotion \/ mobile \/ ParallaxElements = {} THEN pg
  ELSE rafCallback([pg EXCEPT !.handlers =
                      Append(@, [kind |-> "handleParallax", ticking |-> FALSE])],
                   Len(pg.handlers) + 1)

\* lines 181-206: a new wrapper is made and registered for scroll.
initBackgroundSlide(pg) ==
  IF prefersReducedMotion \/ mobile \/ BgElements = {} THEN pg
  ELSE [pg EXCEPT !.handlers = Append(@, [kind |-> "handleSlide", ticking |-> FALSE])]

\* lines 78-98: every float element is paused and observed by a new observer.
initFloatingAnimations(pg) ==
  IF prefersReducedMotion \/ FloatElements = {} THEN pg
  ELSE [pg EXCEPT !.playState =
          [el \in DOMAIN @ |-> IF el \in FloatElements THEN "paused" ELSE @[el]]]

\* lines 211-245: a new observer observes every counter.
initCounterAnimation(pg) ==
  IF CounterElements = {} THEN pg
  ELSE [pg EXCEPT !.counterObserved = Append(@, CounterElements)]

initScrollReveal(pg) ==
  IF markup = "visibility" THEN [pg EXCEPT !.classList = autoAddScrollClasses(@)] ELSE pg

\* lines 327-345, on the page; the observers and listeners that hold no
\* page state of their own are counted by initAll below.
initAllPage(pg) ==
  LET core == initFloatingAnimations(initScrollReveal(pg))
      desktop == IF ~mobile THEN initBackgroundSlide(initParallax(core)) ELSE core
  IN initCounterAnimation(desktop)

initAll ==
  /\ Becomes(initAllPage(Page))
  /\ initRuns' = initRuns + 1
  /\ observers' =
       [reveal |-> observers.reveal
                     + (IF RevealElements(autoAddScrollClasses(classList)) # {} THEN 1 ELSE 0),
        float |-> observers.float
                     + (IF prefersReducedMotion \/ FloatElements = {} THEN 0 ELSE 1),
        section |-> observers.section + 1,
        line |-> observers.line + 1]
  /\ buttonListeners' =
       buttonListeners + (IF prefersReducedMotion \/ mobile THEN 0 ELSE 1)
  /\ lastEntry' = IF prefersReducedMotion \/ FloatElements = {} THEN lastEntry
                  ELSE [el \in AllFloat |-> <<>>]

\* init(), lines 319-325.  addEventListener keeps one registration of the
\* same function, so a second call while loading registers nothing new.
CallInit ==
  /\ initCalls < MaxInitCalls
  /\ initCalls' = initCalls + 1
  /\ IF readyState = "loading"
     THEN /\ domListener' = TRUE
          /\ UNCHANGED <<initRuns, handlers, rafQueue, transform, classList, observers,
                         buttonListeners, playState, counterObserved, textContent,
                         started, decreased, lastEntry>>
     ELSE /\ initAll
          /\ UNCHANGED domListener
  /\ UNCHANGED <<readyState, envVars, scrollY, reported, intersected>>

DOMContentLoaded ==
  /\ readyState = "loading"
  /\ readyState' = "complete"
  /\ IF domListener
     THEN initAll
     ELSE UNCHANGED <<initRuns, handlers, rafQueue, transform, classList, observers,
                      buttonListeners, playState, counterObserved, textContent,
                      started, decreased, lastEntry>>
  /\ UNCHANGED <<domListener, initCalls, envVars, scrollY, reported, intersected>>

Next ==
  \/ CallInit
  \/ DOMContentLoaded
  \/ \E y \in ScrollPositions : Scroll(y)
  \/ AnimationFrame
  \/ Tick
  \/ \E entries \in Batches(FloatElements) : FloatCallback(entries)
  \/ \E entries \in Batches(RevealElements(classList)) : RevealCallback(entries)
  \/ \E o \in DOMAIN counterObserved :
       \E entries \in Batches(counterObserved[o]) : CounterCallback(o, entries)

Spec == Init /\ [][Next]_vars

\* The page with the counters, where the browser keeps delivering animation
\* frames and time keeps passing.
CounterInit == Init /\ markup = "counters"
CounterNext ==
  \/ CallInit
  \/ DOMContentLoaded
  \/ AnimationFrame
  \/ Tick
  \/ \E o \in DOMAIN counterObserved :
       \E entries \in Batches(counterObserved[o]) : CounterCallback(o, entries)
FairSpec ==
  CounterInit /\ [][CounterNext]_vars /\ WF_vars(AnimationFrame) /\ WF_vars(Tick)

(***************************************************************************)
(* Properties.                                                             *)
(***************************************************************************)
\* The frame callbacks a wrapper has pending, and the chains of a counter.
Pending(h) ==
  Cardinality({i \in DOMAIN rafQueue :
                 rafQueue[i].kind = "rafCallback" /\ rafQueue[i].h = h})
Chains(el) ==
  Cardinality({i \in DOMAIN rafQueue :
                 rafQueue[i].kind = "updateCounter" /\ rafQueue[i].target = el})
Running(el) == Chains(el) > 0
FinalValue(el) == IF el \in DOMAIN counterAttr THEN parseInt(counterAttr[el]) ELSE NaN

\* After one initialisation: the parallax wrapper is registered and no
\* wrapper has a frame pending, so every scroll event so far was followed by
\* a frame.
Settled ==
  /\ initRuns = 1
  /\ \E h \in DOMAIN handlers : handlers[h].kind = "handleParallax"
  /\ \A h \in DOMAIN handlers : ~handlers[h].ticking

\* The offset handleParallax gives an element at the current scroll position
\* when no offset has been applied to it before.
FreshDistance10(el) ==
  10 * scrollY + (10 * innerHeight) \div 2
    - (10 * LayoutTop(el) + (10 * LayoutHeight(el)) \div 2)
FreshOffset(el) == (FreshDistance10(el) * Speed(el)) \div 10

\* C1: for a counter whose target T is a number >= 0, no write to the text
\* is below the number written before, and once the animation is over the
\* text shows T.
C1_MonotoneToTarget ==
  \A el \in CounterElements :
    (FinalValue(el)[1] = "num" /\ FinalValue(el)[2] >= 0)
      => /\ ~decreased[el]
         /\ (started[el] > 0 /\ ~Running(el)) => textContent[el] = FinalValue(el)

\* C2: once initAll has run, further calls of init leave the listeners and
\* observers of one run: one wrapper per scroll effect, one observer per
\* observer effect, one pair of pointer listeners per button.
C2_InitIdempotent ==
  initRuns >= 1 =>
    /\ \A k \in {"handleParallax", "handleSlide"} :
         Cardinality({h \in DOMAIN handlers : handlers[h].kind = k}) <= 1
    /\ \A k \in DOMAIN observers : observers[k] <= 1
    /\ Len(counterObserved) <= 1
    /\ buttonListeners <= 1

\* C3: a wrapper made by rafCallback has at most one frame callback pending,
\* exactly while its ticking flag is set: scroll events that arrive before
\* the frame schedule nothing more.
C3_OnePendingFrame ==
  \A h \in DOMAIN handlers : Pending(h) = (IF handlers[h].ticking THEN 1 ELSE 0)

\* Witness of C3: after initParallax's own call a scroll event has called
\* both wrappers before any frame ran, and the parallax wrapper still has
\* one callback pending.
C3_ScrollWhilePending ==
  /\ Len(handlers) = 2
  /\ handlers[1].kind = "handleParallax" /\ handlers[2].ticking
  /\ \A el \in AllParallax : transform[el] = <<>>
  /\ Pending(1) = 1
  /\ scrollY # 0

\* C4: an element carries the class active or is-visible only if the reveal
\* observer delivered an intersecting entry for it.
C4_ActiveOnlyIfIntersected ==
  \A el \in RevealMarkup :
    classList[el] \cap {"active", "is-visible"} # {} => el \in intersected

\* Witness of C4: an element reported only as not intersecting is without
\* the class while another one has received it.
C4_ReportedOutsideStaysInactive ==
  \E el \in reported \ intersected, other \in intersected :
    /\ "active" \notin classList[el]
    /\ "active" \in classList[other]

\* C5: whatever the data-counter attribute holds, nothing that is not a
\* number is written to the text of a counter (a counter whose attribute
\* does not parse is skipped or counts to a fallback).
C5_NoNonNumericText ==
  \A el \in CounterElements : ~IsNaN(textContent[el])

\* C6: a counter animation that is running eventually stops with the final
\* value in the text and no frame callback pending for the counter.
Stopped(el) == started[el] > 0 /\ ~Running(el) /\ textContent[el] = FinalValue(el)
C6_CounterStops == \A el \in AllCounters : Running(el) ~> Stopped(el)

\* Witness of C6: an animation has run to its end.
C6_HasStopped == \E el \in CounterElements : Stopped(el)

\* C7: when scrolling has stopped and the pending frames have run, no
\* parallax element is left with an offset from an earlier position: an
\* offset in force is the one computed from the final scroll position.
\* (Stated for boxes that do not follow the transform, where that offset
\* depends on nothing but the position.)
C7_SettledAtFinalPosition ==
  (Settled /\ ~boxTransformable) =>
    \A el \in ParallaxElements :
      transform[el] # <<>> => transform[el] = <<FreshOffset(el)>>

\* C8: the offset of a parallax element is determined by the current scroll
\* position alone: in a settled state it is what handleParallax gives at
\* that position on a page where no offset was applied before (no offset
\* where it skips the element).
C8_OffsetFunctionOfScroll ==
  Settled =>
    \A el \in ParallaxElements :
      transform[el] =
        (IF CloseToViewport(FreshDistance10(el)) THEN <<FreshOffset(el)>> ELSE <<>>)

\* C9: after one initialisation at most one updateCounter chain is started
\* for a counter, and at most one is running.
C9_StartedOnce ==
  initRuns <= 1 => \A el \in CounterElements : started[el] <= 1 /\ Chains(el) <= 1

====
